---- MODULE Spec2Model ----
(***************************************************************************)
(* A model of src/services/monitorService.ts: the lazily created,          *)
(* module-level AI client (getAIClient) and the asynchronous frame         *)
(* analyzer (analyzeFrame), with several calls of analyzeFrame in flight   *)
(* on one JavaScript event loop.                                           *)
(*                                                                         *)
(* Strings that the code inspects character by character (the image) are   *)
(* sequences of chunks, each chunk a literal piece of text of known        *)
(* length; numbers of the JSON payload are kept in hundredths (0.92 is 92).*)
(***************************************************************************)
EXTENDS Naturals, Sequences, FiniteSets, TLC

\* ------------------------------------------------------------------------
\* Bounds of the model

\* Number of caller slots, each running one analyzeFrame call at a time.
NumCallers == 2

Callers == 1..NumCallers

\* ------------------------------------------------------------------------
\* The image string (base64Image)

PNG == "data:image/png;base64,"
JPEG == "data:image/jpeg;base64,"
JPG == "data:image/jpg;base64,"
GIF == "data:image/gif;base64,"
Placeholder == "data:,"

\* Chunks of 60, 40 and 39 base64 characters (no ':' or ';' in them).
B60 == "<60 base64 chars>"
B40 == "<40 base64 chars>"
B39 == "<39 base64 chars>"

\* The number of characters of a chunk.
ChunkLen(c) ==
    CASE c = PNG -> 22
      [] c = JPEG -> 23
      [] c = JPG -> 22
      [] c = GIF -> 22
      [] c = Placeholder -> 6
      [] c = B60 -> 60
      [] c = B40 -> 40
      [] c = B39 -> 39

\* String.prototype.length
RECURSIVE length(_)
length(s) == IF s = <<>> THEN 0 ELSE ChunkLen(Head(s)) + length(Tail(s))

\* The minimum length of an image (line 46).
MinLength == 100

\* The images callers pass: empty, the placeholder, too short (plain and
\* prefixed), exactly long enough, and long enough with each kind of prefix,
\* with a prefix the pattern does not know, with two prefixes and with a
\* prefix that is not leading.
Images ==
    { <<>>, <<Placeholder>>, <<B60, B39>>, <<PNG, B60>>,
      <<B60, B40>>, <<B40, B60>>,
      <<PNG, B60, B40>>, <<JPEG, B60, B40>>, <<JPG, B60, B40>>,
      <<GIF, B60, B40>>, <<PNG, PNG, B60, B40>>, <<B60, PNG, B40>> }

\* The images of the specification that varies the service's answers.
SomeImages == { <<>>, <<B60, B40>>, <<PNG, B40, B60>> }

\* The error of line 47.
InvalidFrameMessage == "Invalid frame captured (empty data)"

\* Mutant of InvalidFrame: the length is not checked.
InvalidFrameNoLength(base64Image) ==
    \/ base64Image = <<>>
    \/ base64Image = <<Placeholder>>

\* The condition of line 46.
InvalidFrame(base64Image) ==
    \/ base64Image = <<>>
    \/ base64Image = <<Placeholder>>
    \/ length(base64Image) < MinLength

\* Mutant of cleanBase64: the pattern lacks the jpg alternative.
cleanBase64NoJpg(base64Image) ==
    IF base64Image # <<>> /\ Head(base64Image) \in {PNG, JPEG}
    THEN Tail(base64Image)
    ELSE base64Image

\* Line 50: replace(/^data:image\/(png|jpeg|jpg);base64,/, ""): the first
\* match of a pattern anchored at the start is removed, once.
cleanBase64(base64Image) ==
    IF base64Image # <<>> /\ Head(base64Image) \in {PNG, JPEG, JPG}
    THEN Tail(base64Image)
    ELSE base64Image

\* ------------------------------------------------------------------------
\* JavaScript values: what JSON.parse yields and what analyzeFrame returns

NoMembers == [k \in {} |-> [type |-> "null", str |-> "", num |-> 0]]

StringValue(s) == [type |-> "string", str |-> s, num |-> 0]
NumberValue(n) == [type |-> "number", str |-> "", num |-> n]
NullMember == [type |-> "null", str |-> "", num |-> 0]

\* A value that is not an object has no members.
Scalar(m) == [type |-> m.type, str |-> m.str, num |-> m.num, obj |-> NoMembers]
ObjectValue(members) == [type |-> "object", str |-> "", num |-> 0, obj |-> members]
NullValue == Scalar(NullMember)

\* ------------------------------------------------------------------------
\* JSON.parse (line 88), on a text that is a sequence of lexical tokens

LBrace == [lex |-> "{", str |-> "", num |-> 0]
RBrace == [lex |-> "}", str |-> "", num |-> 0]
Colon == [lex |-> ":", str |-> "", num |-> 0]
Comma == [lex |-> ",", str |-> "", num |-> 0]
NullToken == [lex |-> "null", str |-> "", num |-> 0]
StringToken(s) == [lex |-> "string", str |-> s, num |-> 0]
NumberToken(n) == [lex |-> "number", str |-> "", num |-> n]

IsScalarToken(t) == t.lex \in {"string", "number", "null"}

MemberOf(t) == [type |-> t.lex, str |-> t.str, num |-> t.num]

\* text is one scalar, or "{" key ":" scalar ("," key ":" scalar)* "}", or "{" "}".
WellFormedObject(text) ==
    LET n == Len(text) IN
    /\ n >= 2
    /\ text[1] = LBrace
    /\ text[n] = RBrace
    /\ \/ n = 2
       \/ /\ n >= 5
          /\ (n - 2) % 4 = 3
          /\ \A i \in 0..((n - 5) \div 4) :
                /\ text[2 + 4 * i].lex = "string"
                /\ text[3 + 4 * i] = Colon
                /\ IsScalarToken(text[4 + 4 * i])
                /\ (5 + 4 * i < n => text[5 + 4 * i] = Comma)

\* The members of a well-formed object text; of a repeated key the last wins.
MembersOf(text) ==
    LET n == Len(text)
        places == IF n = 2 THEN {} ELSE 0..((n - 5) \div 4)
        keys == {text[2 + 4 * i].str : i \in places}
        last(k) == CHOOSE i \in places :
                      /\ text[2 + 4 * i].str = k
                      /\ \A j \in places : text[2 + 4 * j].str = k => j <= i
    IN [k \in keys |-> MemberOf(text[4 + 4 * last(k)])]

SyntaxErrorMessage == "Unexpected token in JSON"

JSONParse(text) ==
    IF Len(text) = 1 /\ IsScalarToken(text[1])
    THEN [ok |-> TRUE, value |-> Scalar(MemberOf(text[1])), message |-> ""]
    ELSE IF WellFormedObject(text)
    THEN [ok |-> TRUE, value |-> ObjectValue(MembersOf(text)), message |-> ""]
    ELSE [ok |-> FALSE, value |-> NullValue, message |-> SyntaxErrorMessage]

\* ------------------------------------------------------------------------
\* The texts the service may answer with

Member(k, v) == <<StringToken(k), Colon, v>>

\* {"status":"FOCUSED","message":"keep it up","confidence":0.92}
TextFocused ==
    <<LBrace>> \o Member("status", StringToken("FOCUSED")) \o <<Comma>>
      \o Member("message", StringToken("keep it up")) \o <<Comma>>
      \o Member("confidence", NumberToken(92)) \o <<RBrace>>

\* {"status":"DISTRACTED","message":"please focus","confidence":7}
TextOverconfident ==
    <<LBrace>> \o Member("status", StringToken("DISTRACTED")) \o <<Comma>>
      \o Member("message", StringToken("please focus")) \o <<Comma>>
      \o Member("confidence", NumberToken(700)) \o <<RBrace>>

\* null
TextNull == <<NullToken>>

\* {"status":"ABSENT",
TextTruncated == <<LBrace>> \o Member("status", StringToken("ABSENT")) \o <<Comma>>

\* ------------------------------------------------------------------------
\* What the service does with a request: the promise of generateContent is
\* fulfilled with a response (whose text may be undefined) or rejected.

Fulfilled(text) == [kind |-> "fulfilled", hasText |-> TRUE, text |-> text, message |-> ""]
FulfilledNoText == [kind |-> "fulfilled", hasText |-> FALSE, text |-> <<>>, message |-> ""]
Rejected(message) == [kind |-> "rejected", hasText |-> FALSE, text |-> <<>>, message |-> message]
NoResponse == [kind |-> "none", hasText |-> FALSE, text |-> <<>>, message |-> ""]

Responses ==
    { Fulfilled(TextFocused), Fulfilled(TextOverconfident), Fulfilled(TextNull),
      Fulfilled(TextTruncated), Fulfilled(<<>>), FulfilledNoText,
      Rejected("fetch failed"), Rejected(""), Rejected(InvalidFrameMessage) }

\* The answers of the specification that varies the images.
SomeResponses == { Fulfilled(TextFocused) }

\* ------------------------------------------------------------------------
\* The credential, process.env.API_KEY (line 14)

Unset == "<undefined>"
APIKeys == {Unset, "", "key-A", "key-B"}

\* !apiKey (line 15)
Falsy(key) == key = Unset \/ key = ""

\* ------------------------------------------------------------------------
\* The client handle, ai (line 9)

Null == [id |-> 0, apiKey |-> Unset]

\* The error of line 17.
MissingKeyMessage == "API Key is missing. Please check Vercel settings."

\* new GoogleGenAI({ apiKey: apiKey }) (line 20): the n-th handle constructed.
GoogleGenAI(n, key) == [id |-> n, apiKey |-> key]

\* Mutant of getAIClient: the credential is not checked (no lines 15-18).
getAIClientNoCheck(cached, key, n) ==
    IF cached # Null
    THEN [threw |-> FALSE, message |-> "", client |-> cached, ai |-> cached,
          read |-> FALSE, created |-> n]
    ELSE [threw |-> FALSE, message |-> "", client |-> GoogleGenAI(n + 1, key),
          ai |-> GoogleGenAI(n + 1, key), read |-> TRUE, created |-> n + 1]

\* Mutant of getAIClient: the cached handle is not reused (no line 12).
getAIClientNoCache(cached, key, n) ==
    IF Falsy(key)
    THEN [threw |-> TRUE, message |-> MissingKeyMessage, client |-> Null, ai |-> cached,
          read |-> TRUE, created |-> n]
    ELSE [threw |-> FALSE, message |-> "", client |-> GoogleGenAI(n + 1, key),
          ai |-> GoogleGenAI(n + 1, key), read |-> TRUE, created |-> n + 1]

\* Mutant of getAIClient: the credential is read before the cache is looked at
\* (line 14 above line 12).
getAIClientReadFirst(cached, key, n) ==
    IF cached # Null
    THEN [threw |-> FALSE, message |-> "", client |-> cached, ai |-> cached,
          read |-> TRUE, created |-> n]
    ELSE IF Falsy(key)
    THEN [threw |-> TRUE, message |-> MissingKeyMessage, client |-> Null, ai |-> cached,
          read |-> TRUE, created |-> n]
    ELSE [threw |-> FALSE, message |-> "", client |-> GoogleGenAI(n + 1, key),
          ai |-> GoogleGenAI(n + 1, key), read |-> TRUE, created |-> n + 1]

\* getAIClient (lines 11-22), called with the cached handle, the credential
\* and the number of handles constructed so far: whether it threw and with
\* what, the handle it returned, the handle cached afterwards, whether the
\* credential was read and the number of handles constructed afterwards.
getAIClient(cached, key, n) ==
    IF cached # Null
    THEN [threw |-> FALSE, message |-> "", client |-> cached, ai |-> cached,
          read |-> FALSE, created |-> n]
    ELSE IF Falsy(key)
    THEN [threw |-> TRUE, message |-> MissingKeyMessage, client |-> Null, ai |-> cached,
          read |-> TRUE, created |-> n]
    ELSE [threw |-> FALSE, message |-> "", client |-> GoogleGenAI(n + 1, key),
          ai |-> GoogleGenAI(n + 1, key), read |-> TRUE, created |-> n + 1]

\* ------------------------------------------------------------------------
\* How a call of analyzeFrame ends

Pending == [kind |-> "pending", value |-> NullValue, message |-> ""]
Returned(value) == [kind |-> "returned", value |-> value, message |-> ""]
Raised(message) == [kind |-> "raised", value |-> NullValue, message |-> message]

\* The literal of line 102 (not ASCII in the source).
FallbackMessage == "<fallback: connecting to the AI failed>"

\* Lines 100-104
ErrorResult(message) ==
    ObjectValue([status |-> StringValue("ERROR"),
                 message |-> StringValue(IF message # "" THEN message ELSE FallbackMessage),
                 confidence |-> NumberValue(0)])

\* Mutant of Catch: every error is thrown again.
CatchRethrow(message) == Raised(message)

\* The catch block (lines 91-105) on an error with this message.
Catch(message) ==
    IF message = InvalidFrameMessage
    THEN Raised(message)
    ELSE Returned(ErrorResult(message))

NoResponseMessage == "No response from AI"

\* Mutant of AsAnalysisResult: a value that is not an object with a status, a
\* message and a confidence in [0, 1] is turned into an error result.
AsCheckedAnalysisResult(value) ==
    IF /\ value.type = "object"
       /\ DOMAIN value.obj = {"status", "message", "confidence"}
       /\ value.obj["confidence"].type = "number"
       /\ value.obj["confidence"].num <= 100
    THEN value
    ELSE ErrorResult("Malformed response")

\* "as AnalysisResult" (line 88): a type assertion, which checks nothing.
AsAnalysisResult(value) == value

\* Lines 85-105: what the call does once its promise is settled with r.
Continue(r) ==
    IF r.kind = "rejected" THEN Catch(r.message)
    ELSE IF ~r.hasText \/ r.text = <<>> THEN Catch(NoResponseMessage)
    ELSE LET parsed == JSONParse(r.text) IN
         IF parsed.ok THEN Returned(AsAnalysisResult(parsed.value))
         ELSE Catch(parsed.message)

\* ------------------------------------------------------------------------
\* State

VARIABLES
    ai,           \* the module-level handle (line 9)
    apiKey,       \* process.env.API_KEY
    created,      \* history: the number of handles constructed so far
    invoked,      \* history: getAIClient has been invoked at least once
    pc,           \* per caller: "idle", "awaiting", "done"
    base64Image,  \* per caller: the argument of its call
    request,      \* per caller: the request its call sent (line 56)
    response,     \* per caller: what the promise of its request settled with
    outcome,      \* per caller: how its call ended
    keyRead,      \* history: the step just taken read the credential
    sent          \* history: the callers of the calls with a request, oldest request first

vars == <<ai, apiKey, created, invoked, pc, base64Image, request, response,
          outcome, keyRead, sent>>

NoRequest == [client |-> Null, mimeType |-> "", data |-> <<>>]

Init ==
    /\ ai = Null
    /\ apiKey \in APIKeys
    /\ created = 0
    /\ invoked = FALSE
    /\ pc = [p \in Callers |-> "idle"]
    /\ base64Image = [p \in Callers |-> <<>>]
    /\ request = [p \in Callers |-> NoRequest]
    /\ response = [p \in Callers |-> NoResponse]
    /\ outcome = [p \in Callers |-> Pending]
    /\ keyRead = FALSE
    /\ sent = <<>>

\* The deployment changes the credential.
SetEnv(key) ==
    /\ key # apiKey
    /\ apiKey' = key
    /\ keyRead' = FALSE
    /\ UNCHANGED <<ai, created, invoked, pc, base64Image, request, response,
                   outcome, sent>>

\* analyzeFrame up to its await (lines 44-83), which runs without interruption:
\* validation, normalization, client acquisition and the request.
analyzeFrame(p, image) ==
    /\ pc[p] = "idle"
    /\ base64Image' = [base64Image EXCEPT ![p] = image]
    /\ IF InvalidFrame(image)
       THEN /\ pc' = [pc EXCEPT ![p] = "done"]
            /\ outcome' = [outcome EXCEPT ![p] = Raised(InvalidFrameMessage)]
            /\ keyRead' = FALSE
            /\ UNCHANGED <<ai, created, invoked, request, sent>>
       ELSE LET got == getAIClient(ai, apiKey, created) IN
            /\ ai' = got.ai
            /\ created' = got.created
            /\ invoked' = TRUE
            /\ keyRead' = got.read
            /\ IF got.threw
               THEN /\ pc' = [pc EXCEPT ![p] = "done"]
                    /\ outcome' = [outcome EXCEPT ![p] = Catch(got.message)]
                    /\ UNCHANGED <<request, sent>>
               ELSE /\ pc' = [pc EXCEPT ![p] = "awaiting"]
                    /\ request' = [request EXCEPT ![p] =
                          [client |-> got.client, mimeType |-> "image/jpeg",
                           data |-> cleanBase64(image)]]
                    /\ sent' = Append(sent, p)
                    /\ UNCHANGED outcome
    /\ UNCHANGED <<apiKey, response>>

\* Mutant of Awaited: the response is kept in a variable all calls share, so a
\* call may resume with the response to another call's request.
AwaitedShared(p, settled) ==
    IF \E q \in Callers : q # p /\ settled[q].kind # "none"
    THEN settled[CHOOSE q \in Callers : q # p /\ settled[q].kind # "none"]
    ELSE settled[p]

\* What the await of line 56 hands to the call of p, the promises being
\* settled as in settled.
Awaited(p, settled) == settled[p]

\* The service answers the request of p, settling the promise the call of p
\* awaits with r, and analyzeFrame resumes after its await (lines 85-105).
\* Requests are answered in any order. What runs after the await reads and
\* writes nothing but the call's own locals, so it is taken in the same step.
Respond(p, r) ==
    /\ pc[p] = "awaiting"
    /\ pc' = [pc EXCEPT ![p] = "done"]
    /\ response' = [response EXCEPT ![p] = r]
    /\ outcome' = [outcome EXCEPT ![p] = Continue(Awaited(p, response'))]
    /\ keyRead' = FALSE
    /\ UNCHANGED <<ai, apiKey, created, invoked, base64Image, request, sent>>

\* The caller takes the outcome; its slot is free for the next call.
Finish(p) ==
    /\ pc[p] = "done"
    /\ pc' = [pc EXCEPT ![p] = "idle"]
    /\ base64Image' = [base64Image EXCEPT ![p] = <<>>]
    /\ request' = [request EXCEPT ![p] = NoRequest]
    /\ response' = [response EXCEPT ![p] = NoResponse]
    /\ outcome' = [outcome EXCEPT ![p] = Pending]
    /\ keyRead' = FALSE
    /\ sent' = SelectSeq(sent, LAMBDA q : q # p)
    /\ UNCHANGED <<ai, apiKey, created, invoked>>

\* Every answer of the service, a few images.
Next ==
    \/ \E key \in APIKeys : SetEnv(key)
    \/ \E p \in Callers, image \in SomeImages : analyzeFrame(p, image)
    \/ \E p \in Callers, r \in Responses : Respond(p, r)
    \/ \E p \in Callers : Finish(p)

Spec == Init /\ [][Next]_vars

\* Every image, a few answers of the service.
NextImages ==
    \/ \E key \in APIKeys : SetEnv(key)
    \/ \E p \in Callers, image \in Images : analyzeFrame(p, image)
    \/ \E p \in Callers, r \in SomeResponses : Respond(p, r)
    \/ \E p \in Callers : Finish(p)

SpecImages == Init /\ [][NextImages]_vars

\* ------------------------------------------------------------------------
\* Vocabulary of the properties

\* This step is the start of a call of analyzeFrame by p.
Calls(p) == pc[p] = "idle" /\ pc'[p] # "idle"

\* The image is empty, the placeholder, or shorter than 100 characters.
Unusable(image) ==
    image = <<>> \/ image = <<"data:,">> \/ length(image) < 100

\* {status: ERROR, message: text, confidence: 0}
ErrorWith(text) ==
    [type |-> "object", str |-> "", num |-> 0,
     obj |-> [status |-> StringValue("ERROR"), message |-> StringValue(text),
              confidence |-> NumberValue(0)]]

DataURIPrefixes ==
    {"data:image/png;base64,", "data:image/jpeg;base64,", "data:image/jpg;base64,"}

HasPrefix(image) == image # <<>> /\ image[1] \in DataURIPrefixes

\* ------------------------------------------------------------------------
\* Properties

\* C1: a call of analyzeFrame with an image that is empty, the placeholder
\* "data:," or shorter than 100 characters raises the invalid-input error,
\* and in that call no request is sent, the credential is not read and the
\* cached client handle is left as it was.
C1_InvalidInputRaises ==
    [][\A p \in Callers :
          (Calls(p) /\ Unusable(base64Image'[p]))
          => /\ pc'[p] = "done"
             /\ outcome'[p] = Raised("Invalid frame captured (empty data)")
             /\ request'[p] = NoRequest
             /\ sent' = sent
             /\ ~keyRead'
             /\ ai' = ai
             /\ created' = created]_vars

\* C1's case: with a handle cached, a call with a prefixed image of 82
\* characters has raised.
C1_Witness ==
    \E p \in Callers :
        /\ pc[p] = "done"
        /\ base64Image[p] = <<PNG, B60>>
        /\ outcome[p].kind = "raised"
        /\ ai # Null

\* C7: the payload sent is the image with a leading data-URI prefix
\* data:image/{png,jpeg,jpg};base64, removed when there is one, and the image
\* itself when there is none; so an unprefixed payload and the same payload
\* with a prefix before it are sent as the same payload.
C7_PrefixStripped ==
    /\ \A p \in Callers :
          request[p] # NoRequest
          => /\ HasPrefix(base64Image[p])
                => base64Image[p] = <<base64Image[p][1]>> \o request[p].data
             /\ ~HasPrefix(base64Image[p]) => request[p].data = base64Image[p]
    /\ \A p, q \in Callers :
          (/\ request[p] # NoRequest
           /\ request[q] # NoRequest
           /\ ~HasPrefix(base64Image[p])
           /\ \E prefix \in DataURIPrefixes :
                 base64Image[q] = <<prefix>> \o base64Image[p])
          => request[q].data = request[p].data

\* C7's case: one call sent a payload as it was, another the same payload
\* given with the jpg prefix.
C7_Witness ==
    \E p, q \in Callers :
        /\ base64Image[p] = <<B60, B40>>
        /\ base64Image[q] = <<JPG, B60, B40>>
        /\ request[p] # NoRequest
        /\ request[q] # NoRequest
        /\ request[q].data = <<B60, B40>>

\* C2: a call whose image passes validation never raises, whatever error
\* client acquisition, the request or JSON parsing raise and whatever that
\* error's message: a rejected request gives {status: ERROR, message: the
\* error's text or the fallback when the text is empty, confidence: 0}.
C2_OnlyInvalidInputRaises ==
    \A p \in Callers :
        (pc[p] = "done" /\ ~Unusable(base64Image[p]))
        => /\ outcome[p].kind = "returned"
           /\ response[p].kind = "rejected"
              => outcome[p].value =
                    ErrorWith(IF response[p].message = "" THEN FallbackMessage
                              ELSE response[p].message)

\* C3: while no credential is configured and no handle is cached, a call with
\* a valid image returns {status: ERROR, message: the credential-missing
\* text, confidence: 0}, raises nothing, sends no request and leaves the
\* handle un-cached; so do all such calls, one after another.
C3_MissingCredential ==
    [][\A p \in Callers :
          (/\ Calls(p)
           /\ ~Unusable(base64Image'[p])
           /\ apiKey \in {Unset, ""}
           /\ ai = Null)
          => /\ pc'[p] = "done"
             /\ outcome'[p] =
                   Returned(ErrorWith("API Key is missing. Please check Vercel settings."))
             /\ request'[p] = NoRequest
             /\ sent' = sent
             /\ ai' = Null
             /\ created' = 0]_vars

\* C3's case: two calls with valid images have failed for lack of a
\* credential, alike, and no handle is cached.
C3_Witness ==
    /\ ai = Null
    /\ apiKey \in {Unset, ""}
    /\ \E p, q \in Callers :
          /\ p # q
          /\ pc[p] = "done"
          /\ pc[q] = "done"
          /\ ~Unusable(base64Image[p])
          /\ ~Unusable(base64Image[q])
          /\ outcome[p] = Returned(ErrorWith(MissingKeyMessage))
          /\ outcome[q] = outcome[p]

\* C4: when the service answers with a non-empty text that parses as JSON,
\* the call returns the parsed value as it is, never an error result in its
\* place: the spec's example gives FOCUSED with confidence 0.92, the text
\* null gives null, and a confidence of 7 stays 7.
C4_ParsedValueReturned ==
    \A p \in Callers :
        (/\ pc[p] = "done"
         /\ response[p].kind = "fulfilled"
         /\ response[p].hasText
         /\ response[p].text # <<>>
         /\ JSONParse(response[p].text).ok)
        => /\ outcome[p] = Returned(JSONParse(response[p].text).value)
           /\ response[p].text = TextFocused
              => outcome[p].value.obj =
                    [status |-> StringValue("FOCUSED"),
                     message |-> StringValue("keep it up"),
                     confidence |-> NumberValue(92)]
           /\ response[p].text = TextNull => outcome[p].value.type = "null"
           /\ response[p].text = TextOverconfident
              => outcome[p].value.obj["confidence"] = NumberValue(700)

\* C4's case: the service answered with a confidence of 7, and the call
\* returned it.
C4_Witness ==
    \E p \in Callers :
        /\ pc[p] = "done"
        /\ response[p] = Fulfilled(TextOverconfident)
        /\ outcome[p].kind = "returned"
        /\ outcome[p].value.obj["status"] = StringValue("DISTRACTED")

\* C5: when the service answers with no text (undefined or empty), the call
\* returns a result with status ERROR and confidence 0 and does not raise.
C5_NoTextIsError ==
    \A p \in Callers :
        (/\ pc[p] = "done"
         /\ response[p].kind = "fulfilled"
         /\ (~response[p].hasText \/ response[p].text = <<>>))
        => /\ outcome[p].kind = "returned"
           /\ outcome[p].value.type = "object"
           /\ {"status", "confidence"} \subseteq DOMAIN outcome[p].value.obj
           /\ outcome[p].value.obj["status"] = StringValue("ERROR")
           /\ outcome[p].value.obj["confidence"] = NumberValue(0)

\* C5's case: the service answered with an empty text, and the call returned
\* the error result.
C5_Witness ==
    \E p \in Callers :
        /\ pc[p] = "done"
        /\ response[p] = Fulfilled(<<>>)
        /\ outcome[p] = Returned(ErrorWith(NoResponseMessage))

\* Each call's request carries its own image's payload, and a call that has
\* ended after a request ended as the response to that request makes it end.
OwnPayloadOwnResponse ==
    \A p \in Callers :
        /\ request[p] # NoRequest
           => /\ pc[p] \in {"awaiting", "done"}
              /\ request[p].data \in {base64Image[p], Tail(base64Image[p])}
              /\ request[p].mimeType = "image/jpeg"
        /\ (pc[p] = "awaiting") = (request[p] # NoRequest /\ response[p] = NoResponse)
        /\ (pc[p] = "done" /\ request[p] # NoRequest)
           => outcome[p] = Continue(response[p])

\* A step of one call leaves the image, request, response and outcome of
\* every other call as they were.
OthersUntouched ==
    \A p, q \in Callers :
        (pc'[p] # pc[p] /\ q # p)
        => /\ pc'[q] = pc[q]
           /\ base64Image'[q] = base64Image[q]
           /\ request'[q] = request[q]
           /\ response'[q] = response[q]
           /\ outcome'[q] = outcome[q]

\* C6: of calls in flight together with distinct valid images, each sends its
\* own image's payload and ends as the response to its own request makes it
\* end, in whatever order the requests are answered; no step of a call
\* touches what belongs to another call.
C6_NoCrossTalk == []OwnPayloadOwnResponse /\ [][OthersUntouched]_vars

\* C6's case: two calls with distinct images and payloads were in flight
\* together, and the request sent second was answered first: its call has
\* returned that answer while the older request is still unanswered.
C6_Witness ==
    \E p, q \in Callers :
        /\ sent = <<p, q>>
        /\ pc[p] = "awaiting"
        /\ pc[q] = "done"
        /\ base64Image[p] # base64Image[q]
        /\ request[p].data # request[q].data
        /\ response[q] = Fulfilled(TextFocused)
        /\ outcome[q].kind = "returned"
        /\ outcome[q].value.obj["status"] = StringValue("FOCUSED")

\* The handle is unset and none was constructed, or it is the one handle
\* ever constructed; every request in flight or answered went out on it.
OneHandle ==
    /\ created \in {0, 1}
    /\ (created = 0) = (ai = Null)
    /\ ai.id = created
    /\ \A p \in Callers : request[p] # NoRequest => (ai # Null /\ request[p].client = ai)

\* C8: at most one handle is ever constructed, every call that acquires a
\* client gets that handle, and a cached handle is never replaced or cleared,
\* whatever becomes of the credential.
C8_HandleCreatedOnce == []OneHandle /\ [][ai # Null => ai' = ai]_vars

\* C8's case: two calls are in flight on the same handle, and the credential
\* is no longer the one the handle was constructed with.
C8_Witness ==
    \E p, q \in Callers :
        /\ p # q
        /\ pc[p] = "awaiting"
        /\ pc[q] = "awaiting"
        /\ request[p].client = request[q].client
        /\ request[p].client = ai
        /\ ai.apiKey = "key-A"
        /\ apiKey = "key-B"

\* An AnalysisResult: status one of the four, confidence in [0, 1].
IsAnalysisResult(value) ==
    /\ value.type = "object"
    /\ {"status", "message", "confidence"} \subseteq DOMAIN value.obj
    /\ value.obj["status"] \in
          {StringValue(st) : st \in {"FOCUSED", "DISTRACTED", "ABSENT", "ERROR"}}
    /\ value.obj["confidence"].type = "number"
    /\ value.obj["confidence"].num <= 100

\* C9: every value a call returns is an AnalysisResult, whatever text the
\* service answers with.
C9_ResultWellFormed ==
    \A p \in Callers :
        (pc[p] = "done" /\ outcome[p].kind = "returned")
        => IsAnalysisResult(outcome[p].value)

\* C10 as stated: once the accessor has been invoked, no later invocation
\* reads the credential.
C10_ReadOnFirstInvocationOnly == [][invoked => ~keyRead']_vars

\* C10, amended: the credential is read by exactly the calls that pass
\* validation while no handle is cached, the first or not, and by no call
\* once a handle is cached; a call that finds a credential set after earlier
\* calls failed for lack of one constructs the handle with it and sends its
\* request on it.
C10_ReadWhileNotCached ==
    [][/\ keyRead' = (\E p \in Callers :
                         Calls(p) /\ ~Unusable(base64Image'[p]) /\ ai = Null)
       /\ \A p \in Callers :
             (/\ Calls(p)
              /\ ~Unusable(base64Image'[p])
              /\ ai = Null
              /\ apiKey \notin {Unset, ""})
             => /\ ai' = [id |-> 1, apiKey |-> apiKey]
                /\ pc'[p] = "awaiting"
                /\ request'[p].client = ai']_vars

\* C10's case: one call failed for lack of a credential; the credential was
\* set; the step just taken is a later call, which read it and sent its
\* request on a handle made with it.
C10_Witness ==
    \E p, q \in Callers :
        /\ p # q
        /\ pc[p] = "done"
        /\ outcome[p] = Returned(ErrorWith(MissingKeyMessage))
        /\ pc[q] = "awaiting"
        /\ keyRead
        /\ request[q].client = [id |-> 1, apiKey |-> "key-A"]

====
